---- MODULE Spec2Model ----
(***************************************************************************)
(* The token validator worker (poll_for_token_status) and the feature      *)
(* refresher worker (refresh_features) of                                   *)
(* server/src/http/background_refresh.rs, the two bounded channels that     *)
(* feed them and the sink write lock they share.                            *)
(*                                                                          *)
(* The EdgeSink operations the workers call (validate, sink_tokens,         *)
(* fetch_features, sink_features), the EdgeToken type and the sender side   *)
(* of the token channel are not part of the files modelled here; they are   *)
(* modelled from the specification of the caching core.                     *)
(***************************************************************************)
EXTENDS Integers, Sequences, FiniteSets

(* ------------------------------ bounds -------------------------------- *)

\* Number of registrations the request handlers submit in one behaviour.
MaxSubmit == 2
\* Capacity of the bounded feature channel (validator -> refresher).
ChanCap == 1
\* Capacity of the bounded token channel (handlers -> validator).
TokenChanCap == 2
\* Highest ETag version upstream publishes for an environment.
MaxVer == 2

(* ------------------------------ tokens -------------------------------- *)

\* The token strings of the model.
TokenIds == {"a1", "aw", "zz"}

Envs == {"envA", "envB"}

\* Environment key a token string decodes to.
Env(t) == IF t = "zz" THEN "envB" ELSE "envA"

\* Project scope a token string decodes to ("*" is the wildcard).
Project(t) == IF t = "a1" THEN "proj1" ELSE "*"

\* The tokens upstream recognises.
Recognised == {"a1", "aw"}

\* Fetch key u subsumes fetch key t: same environment, u has wildcard scope.
Subsumes(u, t) == Env(u) = Env(t) /\ Project(u) = "*" /\ Project(t) # "*"

\* Absent entries of the caches.
NoRecord == "NoRecord"
NoPayload == -1
NoEngine == [payload_etag |-> -1]

VARIABLES
    token_channel,    \* tokens in flight to poll_for_token_status
    token_open,       \* some sender of token_channel is still alive
    feature_channel,  \* tokens in flight from the validator to refresh_features
    submitted,        \* registrations submitted so far
    lock_holder,      \* holder of sink's write lock
    lock_queue,       \* tasks waiting in sink.write().await, first come first served
    vpc,              \* position of poll_for_token_status
    vtoken,           \* its local `token`
    vresult,          \* its local `validated_tokens` (status of the one record)
    validate_ok,      \* upstream validate calls answered Ok, per token
    rpc,              \* position of refresh_features
    tokens,           \* its local `tokens` HashSet
    rtodo,            \* what is left of `tokens.iter()` in the current round
    rcur,             \* the token of the fetch in flight
    rresp,            \* its local `features_result`
    in_flight,        \* tokens whose fetch_features call has not returned yet
    fetch_calls,      \* fetch_features calls issued so far
    token_cache,      \* A: token string -> status of its record
    features_cache,   \* B: environment key -> ETag of the payload
    engine_cache,     \* C: environment key -> engine, tagged with the payload it was built from
    upstream,         \* ETag version upstream currently serves, per environment
    main_pc,          \* position of main: "idle", "running", "capture", "saving", "exited"
    edge_mode,        \* schedule_args.mode is EdgeMode::Edge
    persistence,      \* main's `persistence` is Some
    first_exit,       \* the select! branch that completed first
    refresh_target_cache, \* D: token strings that have a TokenRefresh entry
    snapshot,         \* clean_shutdown's locals tokens, features, refresh_targets
    saves,            \* result of each save of the join_all
    persisted,        \* clean_shutdown logged "Successfully persisted data"
    shutdowns,        \* calls of clean_shutdown
    mw_req,           \* the request and token validate_token is called with
    mw_out            \* what validate_token answered

vars == <<token_channel, token_open, feature_channel, submitted, lock_holder,
          lock_queue, vpc, vtoken, vresult, validate_ok, rpc, tokens, rtodo,
          rcur, rresp, in_flight, fetch_calls, token_cache, features_cache,
          engine_cache, upstream, main_pc, edge_mode, persistence, first_exit,
          refresh_target_cache, snapshot, saves, persisted, shutdowns, mw_req,
          mw_out>>

chanVars == <<token_channel, token_open, feature_channel, submitted>>
lockVars == <<lock_holder, lock_queue>>
validatorVars == <<vpc, vtoken, vresult, validate_ok>>
refresherVars == <<rpc, tokens, rtodo, rcur, rresp, in_flight, fetch_calls>>
cacheVars == <<token_cache, features_cache, engine_cache>>
mainVars == <<main_pc, edge_mode, persistence, first_exit, refresh_target_cache,
              snapshot, saves, persisted, shutdowns>>
mwVars == <<mw_req, mw_out>>
sideVars == <<mainVars, mwVars>>

NoToken == "none"

\* The save operations of the persistence adapter.
SaveOps == {"save_tokens", "save_features", "save_refresh_targets"}

NoSnapshot == [tokens |-> {}, features |-> {}, refresh_targets |-> {}]

\* main has not reached its select! and no request is in the middleware.
SideIdle ==
    /\ main_pc = "idle"
    /\ edge_mode = TRUE
    /\ persistence = TRUE
    /\ first_exit = "none"
    /\ refresh_target_cache = {}
    /\ snapshot = NoSnapshot
    /\ saves = [op \in SaveOps |-> "none"]
    /\ persisted = FALSE
    /\ shutdowns = 0
    /\ mw_req = "none"
    /\ mw_out = "none"

\* The workers before their first step, with empty caches.
WorkersIdle ==
    /\ token_channel = <<>>
    /\ token_open = TRUE
    /\ feature_channel = <<>>
    /\ submitted = 0
    /\ lock_holder = "none"
    /\ lock_queue = <<>>
    /\ vpc = "recv"
    /\ vtoken = NoToken
    /\ vresult = NoRecord
    /\ validate_ok = [t \in TokenIds |-> 0]
    /\ rpc = "recv"
    /\ tokens = {}
    /\ rtodo = {}
    /\ rcur = NoToken
    /\ rresp = "none"
    /\ in_flight = {}
    /\ fetch_calls = 0
    /\ upstream = [e \in Envs |-> 1]

Init ==
    /\ token_channel = <<>>
    /\ token_open = TRUE
    /\ feature_channel = <<>>
    /\ submitted = 0
    /\ lock_holder = "none"
    /\ lock_queue = <<>>
    /\ vpc = "recv"
    /\ vtoken = NoToken
    /\ vresult = NoRecord
    /\ validate_ok = [t \in TokenIds |-> 0]
    /\ rpc = "recv"
    /\ tokens = {}
    /\ rtodo = {}
    /\ rcur = NoToken
    /\ rresp = "none"
    /\ in_flight = {}
    /\ fetch_calls = 0
    /\ token_cache = [t \in TokenIds |-> NoRecord]
    /\ features_cache = [e \in Envs |-> NoPayload]
    /\ engine_cache = [e \in Envs |-> NoEngine]
    /\ upstream = [e \in Envs |-> 1]
    /\ SideIdle

(* --------------------------- environment ------------------------------ *)

\* A request handler registers token t, which has no record in the Token
\* Cache yet: the token is sent to the validator's channel.
Submit(t) ==
    /\ token_open
    /\ submitted < MaxSubmit
    /\ Len(token_channel) < TokenChanCap
    /\ token_cache[t] = NoRecord
    /\ token_channel' = Append(token_channel, t)
    /\ submitted' = submitted + 1
    /\ UNCHANGED <<token_open, feature_channel, lockVars, validatorVars,
                   refresherVars, cacheVars, upstream>>
    /\ UNCHANGED sideVars

\* Every sender of the token channel is dropped.
CloseTokenChannel ==
    /\ token_open
    /\ token_open' = FALSE
    /\ UNCHANGED <<token_channel, feature_channel, submitted, lockVars,
                   validatorVars, refresherVars, cacheVars, upstream>>
    /\ UNCHANGED sideVars

\* Upstream publishes a new version of an environment's features.
UpstreamPublish(e) ==
    /\ upstream[e] < MaxVer
    /\ upstream' = [upstream EXCEPT ![e] = @ + 1]
    /\ UNCHANGED <<chanVars, lockVars, validatorVars, refresherVars, cacheVars>>
    /\ UNCHANGED sideVars

(* ------------------------- the sink write lock ------------------------ *)

\* sink.write().await is granted: the lock is free and the task is the
\* first in the queue.
Granted(task) ==
    /\ lock_holder = "none"
    /\ lock_queue # <<>>
    /\ Head(lock_queue) = task

Release == lock_holder' = "none" /\ UNCHANGED lock_queue

(* ----------------------- EdgeSink operations -------------------------- *)

\* validate(vec![t]) answered Ok: the record of t, validated when upstream
\* returns t in the subset it recognises and invalid otherwise.
ValidateRecord(t) == IF t \in Recognised THEN "Validated" ELSE "Invalid"

\* sink_tokens: the record is inserted into the Token Cache.
SinkTokens(t, record) == token_cache' = [token_cache EXCEPT ![t] = record]

\* The evaluation engine built from a payload.
BuildEngine(payload) == [payload_etag |-> payload]

\* A sink_features that replaces the payload and keeps the old engine.
SinkFeaturesKeepEngine(t, payload) ==
    /\ features_cache' = [features_cache EXCEPT ![Env(t)] = payload]
    /\ UNCHANGED engine_cache

\* sink_features: the payload of the token's environment is replaced and its
\* engine rebuilt from the new payload.
SinkFeatures(t, payload) ==
    /\ features_cache' = [features_cache EXCEPT ![Env(t)] = payload]
    /\ engine_cache' = [engine_cache EXCEPT ![Env(t)] = BuildEngine(payload)]

\* What fetch_features(t) can be answered: 200 with the version upstream
\* serves, 304 when the cached payload has that version, 401/403, or a
\* network/5xx error. The last two reach the caller as Err.
FetchOutcomes(t) ==
    {"Updated", "Forbidden", "NetworkError"} \cup
        (IF features_cache[Env(t)] = upstream[Env(t)] THEN {"NoUpdate"} ELSE {})

(* ---------------------- poll_for_token_status ------------------------- *)

\* A worker without the break: a closed channel does not end it.
PollRecvNeverBreaks ==
    /\ vpc = "recv"
    /\ token_channel # <<>>
    /\ vtoken' = Head(token_channel)
    /\ token_channel' = Tail(token_channel)
    /\ lock_queue' = Append(lock_queue, "validator")
    /\ vpc' = "lock"
    /\ UNCHANGED <<token_open, feature_channel, submitted, lock_holder, vresult,
                   validate_ok, refresherVars, cacheVars, upstream>>
    /\ UNCHANGED sideVars

\* token_channel.recv().await, then queueing for sink.write().await; a closed
\* and drained channel ends the worker, which drops its feature_channel sender.
PollRecv ==
    /\ vpc = "recv"
    /\ \/ /\ token_channel # <<>>
          /\ vtoken' = Head(token_channel)
          /\ token_channel' = Tail(token_channel)
          /\ lock_queue' = Append(lock_queue, "validator")
          /\ vpc' = "lock"
       \/ /\ token_channel = <<>>
          /\ ~token_open
          /\ vpc' = "done"
          /\ UNCHANGED <<vtoken, token_channel, lock_queue>>
    /\ UNCHANGED <<token_open, feature_channel, submitted, lock_holder, vresult,
                   validate_ok, refresherVars, cacheVars, upstream>>
    /\ UNCHANGED sideVars

PollAcquire ==
    /\ vpc = "lock"
    /\ Granted("validator")
    /\ lock_holder' = "validator"
    /\ lock_queue' = Tail(lock_queue)
    /\ vpc' = "validate"
    /\ UNCHANGED <<chanVars, vtoken, vresult, validate_ok, refresherVars,
                   cacheVars, upstream>>
    /\ UNCHANGED sideVars

\* A worker that a failed validation ends (the error leaves the loop).
PollValidateErrBreaks ==
    /\ vpc = "validate"
    /\ \/ /\ vresult' = ValidateRecord(vtoken)
          /\ validate_ok' = [validate_ok EXCEPT ![vtoken] = @ + 1]
          /\ vpc' = "sink"
          /\ UNCHANGED <<vtoken, lockVars>>
       \/ /\ vpc' = "done"
          /\ vtoken' = NoToken
          /\ Release
          /\ UNCHANGED <<vresult, validate_ok>>
    /\ UNCHANGED <<chanVars, refresherVars, cacheVars, upstream>>
    /\ UNCHANGED sideVars

\* write_lock.validate(vec![token]).await: Ok(validated_tokens) or Err.
PollValidate ==
    /\ vpc = "validate"
    /\ \/ /\ vresult' = ValidateRecord(vtoken)
          /\ validate_ok' = [validate_ok EXCEPT ![vtoken] = @ + 1]
          /\ vpc' = "sink"
          /\ UNCHANGED <<vtoken, lockVars>>
       \/ /\ vpc' = "recv"
          /\ vtoken' = NoToken
          /\ Release
          /\ UNCHANGED <<vresult, validate_ok>>
    /\ UNCHANGED <<chanVars, refresherVars, cacheVars, upstream>>
    /\ UNCHANGED sideVars

\* A worker that forwards the token although sinking its record failed.
PollSinkTokensAlwaysSend ==
    /\ vpc = "sink"
    /\ \/ SinkTokens(vtoken, vresult)
       \/ UNCHANGED token_cache
    /\ vpc' = "send"
    /\ UNCHANGED <<chanVars, lockVars, vtoken, vresult, validate_ok,
                   refresherVars, features_cache, engine_cache, upstream>>
    /\ UNCHANGED sideVars

\* write_lock.sink_tokens(validated_tokens).await: Ok leads to the send, Err
\* is logged and ends the iteration.
PollSinkTokens ==
    /\ vpc = "sink"
    /\ \/ /\ SinkTokens(vtoken, vresult)
          /\ vpc' = "send"
          /\ UNCHANGED <<vtoken, vresult, lockVars>>
       \/ /\ vpc' = "recv"
          /\ vtoken' = NoToken
          /\ vresult' = NoRecord
          /\ Release
          /\ UNCHANGED token_cache
    /\ UNCHANGED <<chanVars, validate_ok, refresherVars, features_cache,
                   engine_cache, upstream>>
    /\ UNCHANGED sideVars

\* A worker that uses try_send: a full channel drops the token.
PollSendDropWhenFull ==
    /\ vpc = "send"
    /\ feature_channel' = IF Len(feature_channel) < ChanCap
                          THEN Append(feature_channel, vtoken)
                          ELSE feature_channel
    /\ vpc' = "recv"
    /\ vtoken' = NoToken
    /\ vresult' = NoRecord
    /\ Release
    /\ UNCHANGED <<token_channel, token_open, submitted, validate_ok,
                   refresherVars, cacheVars, upstream>>
    /\ UNCHANGED sideVars

\* let _ = feature_channel.send(token).await: waits for room while the
\* receiver is alive (an Err for a dropped receiver is ignored); the write
\* lock is released when the iteration ends.
PollSend ==
    /\ vpc = "send"
    /\ IF rpc = "done"
       THEN UNCHANGED feature_channel
       ELSE /\ Len(feature_channel) < ChanCap
            /\ feature_channel' = Append(feature_channel, vtoken)
    /\ vpc' = "recv"
    /\ vtoken' = NoToken
    /\ vresult' = NoRecord
    /\ Release
    /\ UNCHANGED <<token_channel, token_open, submitted, validate_ok,
                   refresherVars, cacheVars, upstream>>
    /\ UNCHANGED sideVars

(* -------------------------- refresh_features -------------------------- *)

\* A refresher that receives the token without inserting it into `tokens`.
RefreshRecvNoInsert ==
    /\ rpc = "recv"
    /\ \/ /\ feature_channel # <<>>
          /\ feature_channel' = Tail(feature_channel)
          /\ lock_queue' = Append(lock_queue, "refresher")
          /\ rpc' = "lock"
          /\ UNCHANGED tokens
       \/ /\ feature_channel = <<>>
          /\ vpc = "done"
          /\ rpc' = "done"
          /\ UNCHANGED <<tokens, feature_channel, lock_queue>>
    /\ UNCHANGED <<token_channel, token_open, submitted, lock_holder,
                   validatorVars, rtodo, rcur, rresp, cacheVars, upstream>>
    /\ UNCHANGED <<in_flight, fetch_calls, sideVars>>

\* channel.recv().await and tokens.insert(token), then queueing for
\* sink.write().await; None (the sender is dropped, the channel drained)
\* ends the worker.
RefreshRecv ==
    /\ rpc = "recv"
    /\ \/ /\ feature_channel # <<>>
          /\ tokens' = tokens \cup {Head(feature_channel)}
          /\ feature_channel' = Tail(feature_channel)
          /\ lock_queue' = Append(lock_queue, "refresher")
          /\ rpc' = "lock"
       \/ /\ feature_channel = <<>>
          /\ vpc = "done"
          /\ rpc' = "done"
          /\ UNCHANGED <<tokens, feature_channel, lock_queue>>
    /\ UNCHANGED <<token_channel, token_open, submitted, lock_holder,
                   validatorVars, rtodo, rcur, rresp, cacheVars, upstream>>
    /\ UNCHANGED <<in_flight, fetch_calls, sideVars>>

\* let mut write_lock = sink.write().await; for token in tokens.iter()
RefreshAcquire ==
    /\ rpc = "lock"
    /\ Granted("refresher")
    /\ lock_holder' = "refresher"
    /\ lock_queue' = Tail(lock_queue)
    /\ rtodo' = tokens
    /\ rpc' = "iter"
    /\ UNCHANGED <<chanVars, validatorVars, tokens, rcur, rresp, cacheVars,
                   upstream>>
    /\ UNCHANGED <<in_flight, fetch_calls, sideVars>>

\* A refresher that issues the fetches of a round without awaiting each.
RefreshFetchConcurrent ==
    /\ rpc \in {"iter", "fetching"}
    /\ \E t \in rtodo :
          /\ rcur' = t
          /\ rtodo' = rtodo \ {t}
    /\ in_flight' = in_flight \cup {rcur'}
    /\ fetch_calls' = fetch_calls + 1
    /\ rresp' = "pending"
    /\ rpc' = "fetching"
    /\ UNCHANGED <<chanVars, lockVars, validatorVars, tokens, cacheVars, upstream>>
    /\ UNCHANGED sideVars

\* write_lock.fetch_features(token) is issued for the next token of the
\* iteration (a HashSet iterates in no particular order).
RefreshFetch ==
    /\ rpc = "iter"
    /\ \E t \in rtodo :
          /\ rcur' = t
          /\ rtodo' = rtodo \ {t}
    /\ in_flight' = in_flight \cup {rcur'}
    /\ fetch_calls' = fetch_calls + 1
    /\ rresp' = "pending"
    /\ rpc' = "fetching"
    /\ UNCHANGED <<chanVars, lockVars, validatorVars, tokens, cacheVars, upstream>>
    /\ UNCHANGED sideVars

\* A match that sinks an empty feature set when upstream answers 304.
MatchFeaturesResultSinkOnNoUpdate(resp, t, sink_ok) ==
    IF resp = "Updated" /\ sink_ok
    THEN SinkFeatures(t, upstream[Env(t)])
    ELSE IF resp = "NoUpdate" /\ sink_ok
         THEN SinkFeatures(t, 0)
         ELSE UNCHANGED <<features_cache, engine_cache>>

\* match features_result: Updated sinks the features (sink_features may
\* fail, which is logged); NoUpdate and Err are logged.
MatchFeaturesResult(resp, t, sink_ok) ==
    IF resp = "Updated" /\ sink_ok
    THEN SinkFeatures(t, upstream[Env(t)])
    ELSE UNCHANGED <<features_cache, engine_cache>>

\* A refresher whose round ends at the first fetch error.
RefreshResponseErrAborts ==
    /\ rpc = "fetching"
    /\ \E resp \in FetchOutcomes(rcur), sink_ok \in BOOLEAN :
          /\ rresp' = resp
          /\ MatchFeaturesResult(resp, rcur, sink_ok)
          /\ rtodo' = IF resp \in {"Forbidden", "NetworkError"} THEN {} ELSE rtodo
    /\ in_flight' = in_flight \ {rcur}
    /\ rpc' = "iter"
    /\ UNCHANGED <<chanVars, lockVars, validatorVars, tokens, rcur,
                   fetch_calls, token_cache, upstream>>
    /\ UNCHANGED sideVars

\* fetch_features(token).await returns and its result is matched.
RefreshResponse ==
    /\ rpc = "fetching"
    /\ \E resp \in FetchOutcomes(rcur), sink_ok \in BOOLEAN :
          /\ rresp' = resp
          /\ MatchFeaturesResult(resp, rcur, sink_ok)
    /\ in_flight' = in_flight \ {rcur}
    /\ rpc' = "iter"
    /\ UNCHANGED <<chanVars, lockVars, validatorVars, tokens, rtodo, rcur,
                   fetch_calls, token_cache, upstream>>
    /\ UNCHANGED sideVars

\* A refresher that keeps the write lock across the sleep.
RefreshRoundDoneKeepsLock ==
    /\ rpc = "iter"
    /\ rtodo = {}
    /\ rcur' = NoToken
    /\ rresp' = "none"
    /\ rpc' = "sleep"
    /\ UNCHANGED <<chanVars, lockVars, validatorVars, tokens, rtodo, cacheVars,
                   upstream>>
    /\ UNCHANGED <<in_flight, fetch_calls, sideVars>>

\* The for loop is over: the write lock is dropped and the 15 s sleep starts.
RefreshRoundDone ==
    /\ rpc = "iter"
    /\ rtodo = {}
    /\ rcur' = NoToken
    /\ rresp' = "none"
    /\ Release
    /\ rpc' = "sleep"
    /\ UNCHANGED <<chanVars, validatorVars, tokens, rtodo, cacheVars, upstream>>
    /\ UNCHANGED <<in_flight, fetch_calls, sideVars>>

\* tokio::select! { _ = sleep(15 s) => continue }: the only branch.
RefreshWake ==
    /\ rpc = "sleep"
    /\ rpc' = "recv"
    /\ UNCHANGED <<chanVars, lockVars, validatorVars, tokens, rtodo, rcur,
                   rresp, cacheVars, upstream>>
    /\ UNCHANGED <<in_flight, fetch_calls, sideVars>>

(* ------------------------ main and clean_shutdown --------------------- *)

\* The siblings that race with the HTTP server in main's select! in edge mode.
Siblings == {"refresher", "metrics", "persister"}

\* The entries of the Token Cache, as clean_shutdown collects them.
TokenEntries == {<<t, token_cache[t]>> : t \in {u \in TokenIds : token_cache[u] # NoRecord}}

\* The entries of the Feature Cache, as clean_shutdown collects them.
FeatureEntries == {<<e, features_cache[e]>> : e \in {k \in Envs : features_cache[k] # NoPayload}}

\* main has built its caches and reaches the select!: any cache content, edge
\* mode or not, with or without a persistence adapter.
MainInit ==
    /\ WorkersIdle
    /\ token_cache \in [TokenIds -> {NoRecord, "Validated", "Invalid"}]
    /\ features_cache \in [Envs -> {NoPayload} \cup (1..MaxVer)]
    /\ engine_cache = [e \in Envs |-> IF features_cache[e] = NoPayload
                                      THEN NoEngine
                                      ELSE BuildEngine(features_cache[e])]
    /\ main_pc = "running"
    /\ edge_mode \in BOOLEAN
    /\ persistence \in BOOLEAN
    /\ first_exit = "none"
    /\ refresh_target_cache \in SUBSET TokenIds
    /\ snapshot = NoSnapshot
    /\ saves = [op \in SaveOps |-> "none"]
    /\ persisted = FALSE
    /\ shutdowns = 0
    /\ mw_req = "none"
    /\ mw_out = "none"

mainFrame == <<chanVars, lockVars, validatorVars, refresherVars, cacheVars,
               upstream, mwVars, edge_mode, persistence, refresh_target_cache>>

\* server.run() completes first: the other branches are dropped and
\* clean_shutdown is called.
ServerExits ==
    /\ main_pc = "running"
    /\ first_exit' = "server"
    /\ shutdowns' = shutdowns + 1
    /\ main_pc' = "capture"
    /\ UNCHANGED <<mainFrame, snapshot, saves, persisted>>

\* In edge mode the refresher, the metrics task or the persister completes
\* first: the branch logs and main returns.
SiblingExits(sib) ==
    /\ main_pc = "running"
    /\ edge_mode
    /\ first_exit' = sib
    /\ main_pc' = "exited"
    /\ UNCHANGED <<mainFrame, snapshot, saves, persisted, shutdowns>>

\* clean_shutdown collects the three caches; with a persistence adapter the
\* three saves are started together by join_all, without one it returns.
CleanShutdownCapture ==
    /\ main_pc = "capture"
    /\ snapshot' = [tokens |-> TokenEntries, features |-> FeatureEntries,
                    refresh_targets |-> refresh_target_cache]
    /\ IF persistence
       THEN /\ saves' = [op \in SaveOps |-> "pending"]
            /\ main_pc' = "saving"
       ELSE /\ UNCHANGED saves
            /\ main_pc' = "exited"
    /\ UNCHANGED <<mainFrame, first_exit, persisted, shutdowns>>

\* A join that gives up the saves still pending when one save fails.
SaveCompletesFailFast(op, ok) ==
    /\ main_pc = "saving"
    /\ saves[op] = "pending"
    /\ saves' = IF ok
                THEN [saves EXCEPT ![op] = "ok"]
                ELSE [o \in SaveOps |-> IF o = op THEN "err"
                                        ELSE IF saves[o] = "pending" THEN "cancelled"
                                        ELSE saves[o]]
    /\ UNCHANGED <<mainFrame, main_pc, first_exit, snapshot, persisted, shutdowns>>

\* One of the three saves of the join_all completes, Ok or Err.
SaveCompletes(op, ok) ==
    /\ main_pc = "saving"
    /\ saves[op] = "pending"
    /\ saves' = [saves EXCEPT ![op] = IF ok THEN "ok" ELSE "err"]
    /\ UNCHANGED <<mainFrame, main_pc, first_exit, snapshot, persisted, shutdowns>>

\* join_all has returned: success is logged when every save is Ok, otherwise
\* each failed save is logged.
CleanShutdownReport ==
    /\ main_pc = "saving"
    /\ \A op \in SaveOps : saves[op] # "pending"
    /\ persisted' = (\A op \in SaveOps : saves[op] = "ok")
    /\ main_pc' = "exited"
    /\ UNCHANGED <<mainFrame, first_exit, snapshot, saves, shutdowns>>

MainNext ==
    \/ ServerExits
    \/ \E sib \in Siblings : SiblingExits(sib)
    \/ CleanShutdownCapture
    \/ \E op \in SaveOps, ok \in BOOLEAN : SaveCompletes(op, ok)
    \/ CleanShutdownReport

MainSpec == MainInit /\ [][MainNext]_vars

(* ---------------------------- validate_token -------------------------- *)

\* Request paths, as sequences of pieces whose concatenation is the path.
Paths ==
    { <<"/api", "/client", "/features">>,
      <<"/api", "/client", "s">>,
      <<"/api", "/frontend">>,
      <<"/api", "/proxy", "/all">>,
      <<"/v2", "/api", "/client">>,
      <<"/api", "/admin">> }

\* req.path().contains(pat)
Contains(path, pat) ==
    \E i \in 1..(Len(path) - Len(pat) + 1) :
        SubSeq(path, i, i + Len(pat) - 1) = pat

\* What validate_token can be called with: whether a TokenValidator is in
\* the app data, what register_token (or get_token) returns, and the path.
Requests ==
    [ validator : BOOLEAN,
      lookup_ok : BOOLEAN,
      status : {"Validated", "Unknown", "Invalid"},
      token_type : {"Frontend", "Client", "Admin", "None"},
      in_source : BOOLEAN,
      path : Paths ]

\* A middleware that lets a validated client token through on any path.
ValidateTokenOutcomeClientAnyPath(r) ==
    IF ~r.lookup_ok THEN "error"
    ELSE IF r.validator
    THEN CASE r.status = "Validated" ->
                (CASE r.token_type = "Frontend" ->
                        IF Contains(r.path, <<"/api", "/frontend">>)
                              \/ Contains(r.path, <<"/api", "/proxy">>)
                        THEN "inner" ELSE "403"
                   [] r.token_type = "Client" -> "inner"
                   [] OTHER -> "403")
           [] r.status = "Unknown" -> "401"
           [] r.status = "Invalid" -> "403"
    ELSE IF r.in_source THEN "inner" ELSE "403"

\* validate_token: "inner" is srv.call(req), "401" and "403" are the
\* responses built in place, "error" is the Err of register_token or
\* get_token passed on by `?`.
ValidateTokenOutcome(r) ==
    IF ~r.lookup_ok THEN "error"
    ELSE IF r.validator
    THEN CASE r.status = "Validated" ->
                (CASE r.token_type = "Frontend" ->
                        IF Contains(r.path, <<"/api", "/frontend">>)
                              \/ Contains(r.path, <<"/api", "/proxy">>)
                        THEN "inner" ELSE "403"
                   [] r.token_type = "Client" ->
                        IF Contains(r.path, <<"/api", "/client">>)
                        THEN "inner" ELSE "403"
                   [] OTHER -> "403")
           [] r.status = "Unknown" -> "401"
           [] r.status = "Invalid" -> "403"
    ELSE IF r.in_source THEN "inner" ELSE "403"

\* A request is in the middleware; the workers and main are not looked at.
MiddlewareInit ==
    /\ WorkersIdle
    /\ token_cache = [t \in TokenIds |-> NoRecord]
    /\ features_cache = [e \in Envs |-> NoPayload]
    /\ engine_cache = [e \in Envs |-> NoEngine]
    /\ main_pc = "idle"
    /\ edge_mode = TRUE
    /\ persistence = TRUE
    /\ first_exit = "none"
    /\ refresh_target_cache = {}
    /\ snapshot = NoSnapshot
    /\ saves = [op \in SaveOps |-> "none"]
    /\ persisted = FALSE
    /\ shutdowns = 0
    /\ mw_req \in Requests
    /\ mw_out = "none"

ValidateToken ==
    /\ mw_out = "none"
    /\ mw_req \in Requests
    /\ mw_out' = ValidateTokenOutcome(mw_req)
    /\ UNCHANGED <<chanVars, lockVars, validatorVars, refresherVars, cacheVars,
                   upstream, mainVars, mw_req>>

MiddlewareNext == ValidateToken

MiddlewareSpec == MiddlewareInit /\ [][MiddlewareNext]_vars

(* ------------------------------ cold start ---------------------------- *)

\* Scenario S1: empty caches, one registration of a token upstream
\* recognises, and nothing fails: validate and the sinks return Ok and the
\* fetch is answered 200.
ColdSubmit(t) ==
    /\ t \in Recognised
    /\ submitted = 0
    /\ Submit(t)

ColdPollValidate == PollValidate /\ vpc' = "sink"

ColdPollSinkTokens == PollSinkTokens /\ vpc' = "send"

ColdRefreshResponse ==
    /\ RefreshResponse
    /\ rresp' = "Updated"
    /\ features_cache'[Env(rcur)] = upstream[Env(rcur)]

ColdValidatorNext ==
    \/ PollRecv
    \/ PollAcquire
    \/ ColdPollValidate
    \/ ColdPollSinkTokens
    \/ PollSend

ColdRefresherNext ==
    \/ RefreshRecv
    \/ RefreshAcquire
    \/ RefreshFetch
    \/ ColdRefreshResponse
    \/ RefreshRoundDone
    \/ RefreshWake

ColdNext ==
    \/ \E t \in TokenIds : ColdSubmit(t)
    \/ CloseTokenChannel
    \/ \E e \in Envs : UpstreamPublish(e)
    \/ PollRecv
    \/ PollAcquire
    \/ ColdPollValidate
    \/ ColdPollSinkTokens
    \/ PollSend
    \/ RefreshRecv
    \/ RefreshAcquire
    \/ RefreshFetch
    \/ ColdRefreshResponse
    \/ RefreshRoundDone
    \/ RefreshWake

ColdSpec ==
    /\ Init
    /\ [][ColdNext]_vars
    /\ WF_vars(ColdValidatorNext)
    /\ WF_vars(ColdRefresherNext)

(* --------------------------- specifications --------------------------- *)

ValidatorNext ==
    \/ PollRecv
    \/ PollAcquire
    \/ PollValidate
    \/ PollSinkTokens
    \/ PollSend

RefresherNext ==
    \/ RefreshRecv
    \/ RefreshAcquire
    \/ RefreshFetch
    \/ RefreshResponse
    \/ RefreshRoundDone
    \/ RefreshWake

Next ==
    \/ \E t \in TokenIds : Submit(t)
    \/ CloseTokenChannel
    \/ \E e \in Envs : UpstreamPublish(e)
    \/ PollRecv
    \/ PollAcquire
    \/ PollValidate
    \/ PollSinkTokens
    \/ PollSend
    \/ RefreshRecv
    \/ RefreshAcquire
    \/ RefreshFetch
    \/ RefreshResponse
    \/ RefreshRoundDone
    \/ RefreshWake

Spec == Init /\ [][Next]_vars

\* The runtime keeps polling both workers: a step of a worker that stays
\* possible is eventually taken. Nothing obliges the handlers to submit
\* tokens or upstream to publish.
FairSpec == Spec /\ WF_vars(ValidatorNext) /\ WF_vars(RefresherNext)

(* ------------------------------ claims -------------------------------- *)

\* C1: single-flight validation. However many registrations of the same
\* unseen token are submitted, upstream validate is invoked (and answers)
\* at most once for that token.
SingleFlightValidation == \A t \in TokenIds : validate_ok[t] <= 1

SubsumedTargetsDropped ==
    /\ \A t \in tokens : ~ \E u \in tokens : Subsumes(u, t)
    /\ rpc = "fetching" => ~ \E u \in tokens : Subsumes(u, rcur)

\* C4: idempotent refresh on 304. The step in which a fetch is answered
\* NoUpdate leaves the Feature Cache and the Engine Cache unchanged for every
\* key, and changes neither the refresh targets nor the Token Cache.
NoUpdateLeavesCaches ==
    [][(rpc = "fetching" /\ rresp' = "NoUpdate") =>
          /\ features_cache' = features_cache
          /\ engine_cache' = engine_cache
          /\ tokens' = tokens
          /\ token_cache' = token_cache]_vars

\* C4 witness: a fetch has just been answered NoUpdate for a target whose
\* environment has a payload and an engine.
NoUpdateAnswered ==
    /\ rpc = "iter"
    /\ rresp = "NoUpdate"
    /\ features_cache[Env(rcur)] # NoPayload
    /\ engine_cache[Env(rcur)] # NoEngine

\* C5: revocation. The step in which a fetch for token T is answered 401/403
\* marks T's record invalid in the Token Cache and removes T from the refresh
\* targets.
ForbiddenRevokesTarget ==
    [][(rpc = "fetching" /\ rresp' = "Forbidden") =>
          /\ token_cache'[rcur] = "Invalid"
          /\ rcur \notin tokens']_vars

\* C6: periodic refresh. While the workers are not being shut down (the
\* token channel stays open), every registered refresh target is fetched
\* infinitely often, whether or not further tokens are handed off.
PeriodicRefresh ==
    \A t \in TokenIds :
        []<>(t \notin tokens \/ ~token_open \/ (rpc = "fetching" /\ rcur = t))

\* C7: prompt reaction to handoff. While a handed-off token is waiting in the
\* feature channel, the refresher's interval wait is not what has to expire
\* first: the wait is never ended by the timer with a token pending.
HandoffPreemptsWait ==
    [][(rpc = "sleep" /\ feature_channel # <<>>) => ~RefreshWake]_vars

OnlyValidatedForwarded ==
    /\ \A i \in 1..Len(feature_channel) :
          token_cache[feature_channel[i]] = "Validated"
    /\ \A t \in tokens : token_cache[t] = "Validated"
    /\ rpc = "fetching" => token_cache[rcur] = "Validated"

\* C10: validation before fetch. While a fetch for token t is in flight, an
\* upstream validate of t has been answered Ok, its result is in the Token
\* Cache, and no validation of t is in flight.
ValidationBeforeFetch ==
    rpc = "fetching" =>
        /\ validate_ok[rcur] >= 1
        /\ token_cache[rcur] # NoRecord
        /\ ~(vtoken = rcur /\ vpc \in {"validate", "sink", "send"})

\* C10 witness: a fetch for a token is in flight while a second registration
\* of the same token has been received by the validator, which waits for the
\* write lock.
FetchWhileSecondRegistrationWaits ==
    /\ rpc = "fetching"
    /\ vpc = "lock"
    /\ vtoken = rcur

\* C19: worker termination on channel close. Neither worker terminates while
\* its input channel is open or holds a token; once the token channel is
\* closed the validator eventually terminates, and once the validator has
\* terminated (dropping the only feature sender) the refresher eventually
\* terminates too.
WorkersTerminateOnClose ==
    /\ [](vpc = "done" => (~token_open /\ token_channel = <<>>))
    /\ [](rpc = "done" => (vpc = "done" /\ feature_channel = <<>>))
    /\ (~token_open ~> vpc = "done")
    /\ (vpc = "done" ~> rpc = "done")

\* C19 witness: both workers have terminated after the refresher had
\* registered a token, so a round and its wait were completed on the way.
BothWorkersTerminated ==
    /\ vpc = "done"
    /\ rpc = "done"
    /\ tokens # {}

FinalSnapshotBeforeExit == main_pc = "exited" => shutdowns = 1

\* C17: snapshot partial failure. With a persistence adapter, clean_shutdown
\* hands every entry of the Token Cache, of the Feature Cache and of the
\* refresh targets to the saves; when it returns all three saves have
\* completed, each Ok or Err whatever the others did; success is logged
\* exactly when all three are Ok; and no step of it changes the caches.
SnapshotSavesAll ==
    /\ [](main_pc = "saving" =>
            /\ snapshot.tokens = TokenEntries
            /\ snapshot.features = FeatureEntries
            /\ snapshot.refresh_targets = refresh_target_cache)
    /\ []((main_pc = "exited" /\ shutdowns = 1 /\ persistence) =>
            /\ \A op \in SaveOps : saves[op] \in {"ok", "err"}
            /\ persisted = (\A op \in SaveOps : saves[op] = "ok"))
    /\ [][(main_pc \in {"capture", "saving"}) =>
             (UNCHANGED <<cacheVars, refresh_target_cache>>)]_vars

\* C17 witness: clean_shutdown has returned with one save failed and the
\* other two completed Ok, from caches that all hold entries.
OneSaveFailedOthersDone ==
    /\ main_pc = "exited"
    /\ saves["save_features"] = "err"
    /\ saves["save_tokens"] = "ok"
    /\ saves["save_refresh_targets"] = "ok"
    /\ ~persisted
    /\ snapshot.tokens # {}
    /\ snapshot.features # {}
    /\ snapshot.refresh_targets # {}

\* C13: bounded fan-out. The fetches of a round are awaited one after the
\* other, so at most one fetch_features call is in flight in any reachable
\* state, which is below the cap of 5.
BoundedFanOut == Cardinality(in_flight) <= 1

\* C13 witness: a fetch is in flight while another registered target is
\* still waiting for its turn in the same round.
FetchInFlightOthersPending ==
    /\ in_flight # {}
    /\ rtodo # {}

\* C14: transient fetch error. The step in which a fetch fails with a
\* network/5xx error changes neither cache nor the refresh targets and goes on
\* with the targets left in the round; targets are never removed, and every
\* round starts over all registered targets, the failed one included.
TransientFetchErrorKeepsGoing ==
    /\ [][(rpc = "fetching" /\ rresp' = "NetworkError") =>
             (/\ UNCHANGED <<cacheVars, tokens, rtodo>>
              /\ rpc' = "iter")]_vars
    /\ [][tokens \subseteq tokens']_vars
    /\ [][(rpc = "lock" /\ rpc' # "lock") => rtodo' = tokens']_vars

\* C14 witness: a fetch has just failed with a network error while another
\* target of the round is still to be fetched.
FetchFailedOthersPending ==
    /\ rpc = "iter"
    /\ rresp = "NetworkError"
    /\ rtodo # {}

\* C15: transient validation error. The step in which validate or
\* sink_tokens fails hands nothing to the refresher, records nothing in the
\* Token Cache, releases the write lock and takes the worker back to its
\* receive.
ValidationErrorKeepsWorker ==
    [][(\/ vpc = "validate" /\ vpc' \notin {"validate", "sink"}
        \/ vpc = "sink" /\ vpc' \notin {"sink", "send"}) =>
          (/\ vpc' = "recv"
           /\ feature_channel' = feature_channel
           /\ token_cache' = token_cache
           /\ lock_holder' = "none")]_vars

\* C15 witness: two tokens were received; the validation of the first
\* failed (no validate answered Ok for it, nothing recorded, nothing handed
\* off) and the worker has since validated the second.
SecondTokenValidatedAfterError ==
    /\ vpc = "sink"
    /\ submitted = 2
    /\ token_channel = <<>>
    /\ \A t \in TokenIds : validate_ok[t] = IF t = vtoken THEN 1 ELSE 0
    /\ \A t \in TokenIds : token_cache[t] = NoRecord
    /\ feature_channel = <<>>
    /\ tokens = {}

ColdStartOneValidateOneFetch ==
    /\ \A t \in Recognised :
          (token_channel = <<t>>) ~> (features_cache[Env(t)] # NoPayload)
    /\ []((\A e \in Envs : features_cache[e] = NoPayload) =>
             (fetch_calls <= 1 /\ \A t \in TokenIds : validate_ok[t] <= 1))
    /\ [][\A e \in Envs :
             (features_cache[e] = NoPayload /\ features_cache'[e] # NoPayload) =>
                 /\ fetch_calls' = 1
                 /\ Env(rcur) = e
                 /\ validate_ok'[rcur] = 1]_vars

\* C12 witness: the payload of the registered token's environment is in the
\* Feature Cache after one validate and one fetch.
ColdStartPayloadPresent ==
    /\ submitted = 1
    /\ fetch_calls = 1
    /\ \E t \in Recognised :
          /\ validate_ok[t] = 1
          /\ tokens = {t}
          /\ features_cache[Env(t)] # NoPayload

\* C18: middleware gating. With a validator, the inner handler is called
\* exactly for a validated frontend token on a path containing /api/frontend
\* or /api/proxy and for a validated client token on a path containing
\* /api/client; status unknown is answered 401 and everything else 403.
\* Without a validator the inner handler is called exactly when the token is
\* in the source, and the answer is 403 otherwise.
MiddlewareGating ==
    (mw_out # "none" /\ mw_req.lookup_ok) =>
        LET r == mw_req
            frontendPath == \/ Contains(r.path, <<"/api", "/frontend">>)
                            \/ Contains(r.path, <<"/api", "/proxy">>)
            clientPath == Contains(r.path, <<"/api", "/client">>)
            allowed == /\ r.status = "Validated"
                       /\ \/ r.token_type = "Frontend" /\ frontendPath
                          \/ r.token_type = "Client" /\ clientPath
        IN  IF r.validator
            THEN /\ (mw_out = "inner") = allowed
                 /\ (mw_out = "401") = (r.status = "Unknown")
                 /\ (mw_out = "403") = (~allowed /\ r.status # "Unknown")
            ELSE /\ (mw_out = "inner") = r.in_source
                 /\ (mw_out = "403") = ~r.in_source

\* C18 witness: a validated client token was refused with 403 on a frontend
\* path.
ClientTokenRefusedOnFrontendPath ==
    /\ mw_out = "403"
    /\ mw_req.validator
    /\ mw_req.lookup_ok
    /\ mw_req.status = "Validated"
    /\ mw_req.token_type = "Client"
    /\ mw_req.path = <<"/api", "/frontend">>

====
